---- MODULE Spec2Model ----
(***************************************************************************)
(* Lead scoring system: the scoring engine (services/scoringEngine.js)     *)
(* running against the Mongoose collections Lead, Event, ScoreHistory and  *)
(* ScoringRule.  Every `await` of the engine is one step of a worker, so   *)
(* that calls running concurrently in the Node process interleave at the   *)
(* same points as in the code.                                             *)
(***************************************************************************)
EXTENDS Integers, Sequences, FiniteSets, TLC

\* ---------------------------------------------------------------- bounds
MaxRequests == 3       \* requests served in one behaviour: engine calls
                       \* (one per event of a batch), rule updates, new leads
MaxTime == 2           \* event timestamps are 1..MaxTime
MaxBatch == 2          \* events in one processBatch call

\* ------------------------------------------------------ program constants
MAX_SCORE == 1000

Workers == {"w1", "w2"}
LeadIds == {"L1", "L2"}
EventIds == {"e1", "e2"}
EventTypes == {"purchase", "email_open"}
RulePoints == {-700, 600}

defaultRules ==
  [t \in EventTypes |->
     [points |-> IF t = "purchase" THEN 100 ELSE 10, active |-> TRUE]]

VARIABLES
  leads,      \* Lead collection: leadId -> [exists, currentScore]
  rules,      \* ScoringRule collection: eventType -> [points, active]
  events,     \* Event collection: eventId -> [exists, eventType, leadId, timestamp, processed]
  history,    \* ScoreHistory collection, in insertion order
  pc,         \* per worker: the await it is suspended at ("idle" when none)
  loc,        \* per worker: the local variables of the running call
  returned,   \* what the call ending in the step just taken returned or threw
  batchReturned, \* what the processBatch call ending in the step just taken returned
  emitted,    \* notifications handed to emitScoreUpdate, in order
  payload,    \* the eventData each eventId is delivered with (fixed per eventId)
  applied,    \* per eventId: number of local deltas saved to its lead (line 106)
  outcomes,   \* per eventId: results of the finished processEvent calls, in order
  overlapped, \* per eventId: two processEvent calls for it ran at the same time
  nRequests,  \* requests served so far
  nRuleUpdates, \* rule updates among them
  jobs,       \* the Bull queue: jobId -> the job held under that id
  response    \* what the enqueue route answering in the step just taken sent

vars == <<leads, rules, events, history, pc, loc, returned, batchReturned,
          emitted, payload,
          applied, outcomes, overlapped, nRequests, nRuleUpdates, jobs, response>>

store == <<leads, rules, events, history>>
ghost == <<payload, applied, outcomes, overlapped, nRequests, nRuleUpdates>>

NoEvent ==
  [exists |-> FALSE, eventType |-> "none", leadId |-> "none",
   timestamp |-> 0, processed |-> FALSE]

\* the eventData a producer attaches to each eventId: late delivery of an
\* earlier event of the same lead, two events of one lead at the same time,
\* events of two leads
EventData ==
  { [e \in EventIds |->
       IF e = "e1" THEN [eventType |-> "purchase", leadId |-> "L1", timestamp |-> MaxTime]
       ELSE [eventType |-> "email_open", leadId |-> "L1", timestamp |-> 1]],
    [e \in EventIds |->
       [eventType |-> "purchase", leadId |-> "L1", timestamp |-> 1]],
    [e \in EventIds |->
       IF e = "e1" THEN [eventType |-> "purchase", leadId |-> "L1", timestamp |-> 1]
       ELSE [eventType |-> "email_open", leadId |-> "L2", timestamp |-> MaxTime]] }

\* defaultJobOptions.attempts of the queue (eventQueue.js, part_004:140)
attempts == 3

\* the ids Bull holds a job under: the jobId option of part_004:188 and 205,
\* which is the eventId, and the counter Bull numbers a job with when it is
\* given no jobId
AutoJobIds == {"1", "2"}
JobIds == EventIds \cup AutoJobIds

NoJob == [state |-> "none", eventId |-> "none", attemptsMade |-> 0,
          failedReason |-> "none"]

\* res.status(...).json(...) of the enqueue routes server.js:159-199; length
\* is events.length of the request
NoResponse == [status |-> 0, error |-> "none", jobId |-> "none", length |-> 0]

\* the processor callback of part_004:153-166 without the `throw error` of
\* its catch: a failed attempt is taken for a finished job
Settle_Swallow(job, res) == [job EXCEPT !.state = "completed"]

\* Bull settles a job when the processor callback of part_004:153-166 has
\* returned (completed) or thrown: the failure is counted and its message
\* kept, and the job is delayed for the backoff of lines 141-144 while
\* attemptsMade < attempts, failed for good otherwise (removeOnFail: false
\* keeps it)
Settle(job, res) ==
  IF res.kind # "error"
    THEN [job EXCEPT !.state = "completed"]
    ELSE [state |-> IF job.attemptsMade + 1 < attempts THEN "delayed" ELSE "failed",
          eventId |-> job.eventId,
          attemptsMade |-> job.attemptsMade + 1,
          failedReason |-> res.error]

NoLoc ==
  [op |-> "none", eventId |-> "none", eventType |-> "none", leadId |-> "none",
   timestamp |-> 0, existingEvent |-> FALSE, eventTimestamp |-> 0,
   leadScore |-> 0, rulePoints |-> 0, newScore |-> 0,
   previousScore |-> 0, recalcEvents |-> <<>>, totalScore |-> 0,
   eventsProcessed |-> 0, newHistory |-> <<>>, batchRest |-> <<>>, processed |-> 0,
   duplicates |-> 0, failed |-> 0, errors |-> <<>>,
   alone |-> FALSE, repeat |-> FALSE, before |-> <<>>, jobId |-> "none",
   sortedEvents |-> <<>>]

NoResult ==
  [kind |-> "none", worker |-> "none", eventId |-> "none", leadId |-> "none", duplicate |-> FALSE,
   outOfOrder |-> FALSE, previousScore |-> 0, newScore |-> 0, change |-> 0,
   eventsProcessed |-> 0, error |-> "none", alone |-> FALSE, repeat |-> FALSE,
   before |-> <<>>]

\* the results of processBatch (lines 158-163, 182), with the events it was
\* called for
NoBatchResult ==
  [returned |-> FALSE, processed |-> 0, duplicates |-> 0, failed |-> 0,
   errors |-> <<>>, sortedEvents |-> <<>>]

\* Clamp without the lower bound of lines 100-102 and 213
Clamp_NoFloor(score) == IF score > MAX_SCORE THEN MAX_SCORE ELSE score

\* Clamp without the upper bound of lines 97-99 and 212
Clamp_NoCap(score) == IF score < 0 THEN 0 ELSE score

\* the score after one rule application: lines 97-102 and 212-213
Clamp(score) ==
  LET capped == IF score > MAX_SCORE THEN MAX_SCORE ELSE score
  IN  IF capped < 0 THEN 0 ELSE capped

\* the store after start-up (server.js:33-38 upserts the default rules) with
\* one lead registered through POST /api/leads and no event received yet
Init ==
  /\ leads = [l \in LeadIds |-> [exists |-> l = "L1", currentScore |-> 0]]
  /\ rules = defaultRules
  /\ events = [e \in EventIds |-> NoEvent]
  /\ history = <<>>
  /\ pc = [w \in Workers |-> "idle"]
  /\ loc = [w \in Workers |-> NoLoc]
  /\ returned = NoResult
  /\ batchReturned = NoBatchResult
  /\ emitted = <<>>
  /\ payload \in EventData
  /\ applied = [e \in EventIds |-> 0]
  /\ outcomes = [e \in EventIds |-> <<>>]
  /\ overlapped = [e \in EventIds |-> FALSE]
  /\ nRequests = 0
  /\ nRuleUpdates = 0
  /\ jobs = [j \in JobIds |-> NoJob]
  /\ response = NoResponse

\* ------------------------------------------------------------ call ends
InFlight(w) == pc[w] # "idle" /\ loc[w].eventId \in EventIds

\* the local variables processEvent starts with (line 11)
EventLoc(op, e) ==
  [NoLoc EXCEPT !.op = op, !.eventId = e, !.eventType = payload[e].eventType,
                !.leadId = payload[e].leadId, !.timestamp = payload[e].timestamp]

OverlapAfterStart(w, e) ==
  [overlapped EXCEPT ![e] = @ \/ (\E v \in Workers \ {w} : InFlight(v) /\ loc[v].eventId = e)]

\* how a finished call is remembered: the error message for a thrown error
Tag(res) ==
  IF res.kind = "error" THEN res.error
  ELSE IF res.duplicate THEN "duplicate"
  ELSE IF res.outOfOrder THEN "outOfOrder"
  ELSE res.kind

\* processBatch with a catch block (lines 172-178) that leaves the loop: the
\* first failing event ends the batch
Done_Break(w, res) ==
  LET l == loc[w]
      cnt == [l EXCEPT
                !.processed = IF res.kind # "error" /\ ~res.duplicate THEN @ + 1 ELSE @,
                !.duplicates = IF res.kind # "error" /\ res.duplicate THEN @ + 1 ELSE @,
                !.failed = IF res.kind = "error" THEN @ + 1 ELSE @,
                !.errors = IF res.kind = "error"
                             THEN Append(@, [eventId |-> l.eventId, error |-> res.error])
                             ELSE @]
  IN
  /\ returned' = [res EXCEPT !.worker = w, !.alone = l.alone, !.repeat = l.repeat,
                              !.before = l.before]
  /\ outcomes' = IF l.eventId \in EventIds
                   THEN [outcomes EXCEPT ![l.eventId] = Append(@, Tag(res))]
                   ELSE outcomes
  /\ jobs' = IF l.op = "job"
               THEN [jobs EXCEPT ![l.jobId] = Settle(@, res)]
               ELSE jobs
  /\ response' = NoResponse
  /\ IF l.op = "processBatch" /\ l.batchRest # <<>> /\ res.kind # "error"
       THEN LET e == Head(l.batchRest) IN
            /\ pc' = [pc EXCEPT ![w] = "L14"]
            /\ loc' = [loc EXCEPT ![w] =
                 [EventLoc("processBatch", e) EXCEPT
                     !.batchRest = Tail(l.batchRest),
                     !.sortedEvents = l.sortedEvents,
                     !.alone = l.alone,
                     !.processed = cnt.processed,
                     !.duplicates = cnt.duplicates,
                     !.failed = cnt.failed,
                     !.errors = cnt.errors]]
            /\ overlapped' = OverlapAfterStart(w, e)
            /\ batchReturned' = NoBatchResult
       ELSE /\ pc' = [pc EXCEPT ![w] = "idle"]
            /\ loc' = [loc EXCEPT ![w] = NoLoc]
            /\ overlapped' = overlapped
            /\ batchReturned' =
                 IF l.op = "processBatch"
                   THEN [returned |-> TRUE, processed |-> cnt.processed,
                         duplicates |-> cnt.duplicates, failed |-> cnt.failed,
                         errors |-> cnt.errors, sortedEvents |-> l.sortedEvents]
                   ELSE NoBatchResult

\* processEvent (or a recalculateLeadScore request) of worker w ends with res,
\* a returned value, or a thrown error when res.kind = "error".  Called
\* directly (server.js:164 and 301, the queue processor) the call is over;
\* inside processBatch (lines 165-180) the counters are updated and the loop
\* goes on with the next event, or returns the counters (line 182).
Done(w, res) ==
  LET l == loc[w]
      cnt == [l EXCEPT
                !.processed = IF res.kind # "error" /\ ~res.duplicate THEN @ + 1 ELSE @,
                !.duplicates = IF res.kind # "error" /\ res.duplicate THEN @ + 1 ELSE @,
                !.failed = IF res.kind = "error" THEN @ + 1 ELSE @,
                !.errors = IF res.kind = "error"
                             THEN Append(@, [eventId |-> l.eventId, error |-> res.error])
                             ELSE @]
  IN
  /\ returned' = [res EXCEPT !.worker = w, !.alone = l.alone, !.repeat = l.repeat,
                              !.before = l.before]
  /\ outcomes' = IF l.eventId \in EventIds
                   THEN [outcomes EXCEPT ![l.eventId] = Append(@, Tag(res))]
                   ELSE outcomes
  /\ jobs' = IF l.op = "job"
               THEN [jobs EXCEPT ![l.jobId] = Settle(@, res)]
               ELSE jobs
  /\ response' = NoResponse
  /\ IF l.op = "processBatch" /\ l.batchRest # <<>>
       THEN LET e == Head(l.batchRest) IN
            /\ pc' = [pc EXCEPT ![w] = "L14"]
            /\ loc' = [loc EXCEPT ![w] =
                 [EventLoc("processBatch", e) EXCEPT
                     !.batchRest = Tail(l.batchRest),
                     !.sortedEvents = l.sortedEvents,
                     !.alone = l.alone,
                     !.processed = cnt.processed,
                     !.duplicates = cnt.duplicates,
                     !.failed = cnt.failed,
                     !.errors = cnt.errors]]
            /\ overlapped' = OverlapAfterStart(w, e)
            /\ batchReturned' = NoBatchResult
       ELSE /\ pc' = [pc EXCEPT ![w] = "idle"]
            /\ loc' = [loc EXCEPT ![w] = NoLoc]
            /\ overlapped' = overlapped
            /\ batchReturned' =
                 IF l.op = "processBatch"
                   THEN [returned |-> TRUE, processed |-> cnt.processed,
                         duplicates |-> cnt.duplicates, failed |-> cnt.failed,
                         errors |-> cnt.errors, sortedEvents |-> l.sortedEvents]
                   ELSE NoBatchResult

Thrown(w, msg) ==
  [NoResult EXCEPT !.kind = "error", !.eventId = loc[w].eventId,
                   !.leadId = loc[w].leadId, !.error = msg]

\* catch (error) { throw error } of lines 147-150
Throw(w, msg) == Done(w, Thrown(w, msg))

Goto(w, label, newLoc) ==
  /\ pc' = [pc EXCEPT ![w] = label]
  /\ loc' = [loc EXCEPT ![w] = newLoc]
  /\ returned' = NoResult
  /\ batchReturned' = NoBatchResult
  /\ response' = NoResponse
  /\ UNCHANGED <<outcomes, overlapped, jobs>>

\* ------------------------------------------------------ requests arriving
Quiet == \A v \in Workers : pc[v] = "idle"

\* a request arrives and worker w (none for a request served in one step)
\* starts on it with the local variables newLoc: the calls in progress no
\* longer run alone
Arrival(w, newLoc) ==
  [v \in Workers |-> IF v = w THEN newLoc ELSE [loc[v] EXCEPT !.alone = FALSE]]


\* POST /api/leads (server.js:83-98)
CreateLead(l) ==
  /\ ~leads[l].exists
  /\ nRequests < MaxRequests
  /\ nRequests' = nRequests + 1
  /\ leads' = [leads EXCEPT ![l] = [exists |-> TRUE, currentScore |-> 0]]
  /\ loc' = Arrival("none", NoLoc)
  /\ returned' = NoResult
  /\ response' = NoResponse
  /\ batchReturned' = NoBatchResult
  /\ UNCHANGED <<rules, events, history, pc, emitted,
                 payload, applied, outcomes, overlapped, nRuleUpdates, jobs>>

\* PUT /api/rules/:eventType (server.js:227-253)
UpdateRule(t, points, active) ==
  /\ nRequests < MaxRequests
  /\ nRequests' = nRequests + 1
  /\ rules' = [rules EXCEPT ![t] = [points |-> points, active |-> active]]
  /\ nRuleUpdates' = nRuleUpdates + 1
  /\ loc' = Arrival("none", NoLoc)
  /\ returned' = NoResult
  /\ response' = NoResponse
  /\ batchReturned' = NoBatchResult
  /\ UNCHANGED <<leads, events, history, pc, emitted,
                 payload, applied, outcomes, overlapped, jobs>>

\* processEvent(eventData) is entered: server.js:164 (sync), or the queue
\* processor delivering or re-delivering a job
Call_processEvent(w, e) ==
  /\ pc[w] = "idle"
  /\ nRequests < MaxRequests
  /\ nRequests' = nRequests + 1
  /\ pc' = [pc EXCEPT ![w] = "L14"]
  /\ loc' = Arrival(w, [EventLoc("processEvent", e) EXCEPT !.alone = Quiet])
  /\ returned' = NoResult
  /\ response' = NoResponse
  /\ batchReturned' = NoBatchResult
  /\ overlapped' = OverlapAfterStart(w, e)
  /\ UNCHANGED <<store, emitted, payload, applied, outcomes, nRuleUpdates, jobs>>

\* POST /api/leads/:id/recalculate (server.js:300-303).  `alone`, `repeat`
\* and `before` are bookkeeping: the call starts with no other call in
\* progress, it follows at once a recalculation of the same lead that ran
\* alone, and the rows the lead has when it starts
Call_recalculateLeadScore(w, l) ==
  /\ pc[w] = "idle"
  /\ nRequests < MaxRequests
  /\ nRequests' = nRequests + 1
  /\ pc' = [pc EXCEPT ![w] = "L186"]
  /\ loc' = Arrival(w, [NoLoc EXCEPT
                           !.op = "recalculate", !.leadId = l, !.alone = Quiet,
                           !.repeat = /\ Quiet
                                      /\ returned.kind = "recalc"
                                      /\ returned.leadId = l
                                      /\ returned.alone,
                           !.before = SelectSeq(history, LAMBDA row : row.leadId = l)])
  /\ returned' = NoResult
  /\ response' = NoResponse
  /\ batchReturned' = NoBatchResult
  /\ UNCHANGED <<store, emitted, payload, applied, outcomes, overlapped, nRuleUpdates,
                 jobs>>

\* ------------------------------------------------- processEvent, line 14
\* Event.findOne({eventId}); a processed record ends the call (lines 15-22)
Event_findOne(w) ==
  /\ pc[w] = "L14"
  /\ LET ev == events[loc[w].eventId] IN
       IF ev.exists /\ ev.processed
         THEN Done(w, [NoResult EXCEPT !.kind = "success", !.duplicate = TRUE,
                                       !.eventId = loc[w].eventId,
                                       !.leadId = loc[w].leadId])
         ELSE Goto(w, "L24", [loc[w] EXCEPT !.existingEvent = ev.exists,
                                            !.eventTimestamp = ev.timestamp])
  /\ UNCHANGED <<store, emitted, payload, applied, nRequests, nRuleUpdates>>

\* processEvent without the check of lines 25-27: a missing lead is taken
\* for a lead with score 0
Lead_findById_NoCheck(w) ==
  /\ pc[w] \in {"L24", "L186"}
  /\ LET lead == leads[loc[w].leadId] IN
       IF pc[w] = "L24"
         THEN Goto(w, "L29", [loc[w] EXCEPT !.leadScore = lead.currentScore])
         ELSE IF ~lead.exists
                THEN Throw(w, "Lead not found")
                ELSE Goto(w, "L194", [loc[w] EXCEPT !.previousScore = lead.currentScore])
  /\ UNCHANGED <<store, emitted, payload, applied, nRequests, nRuleUpdates>>

\* Lead.findById(leadId): line 24 of processEvent, line 186 of
\* recalculateLeadScore
Lead_findById(w) ==
  /\ pc[w] \in {"L24", "L186"}
  /\ LET lead == leads[loc[w].leadId] IN
       IF ~lead.exists
         THEN Throw(w, "Lead not found")
         ELSE IF pc[w] = "L24"
                THEN Goto(w, "L29", [loc[w] EXCEPT !.leadScore = lead.currentScore])
                ELSE Goto(w, "L194", [loc[w] EXCEPT !.previousScore = lead.currentScore])
  /\ UNCHANGED <<store, emitted, payload, applied, nRequests, nRuleUpdates>>

\* ScoringRule.findOne({eventType}) at line 29, without active: true
ScoringRule_findOne_AnyRule(w) ==
  /\ pc[w] = "L29"
  /\ Goto(w, IF loc[w].existingEvent THEN "L52" ELSE "L47",
          [loc[w] EXCEPT !.rulePoints = rules[loc[w].eventType].points])
  /\ UNCHANGED <<store, emitted, payload, applied, nRequests, nRuleUpdates>>

\* ScoringRule.findOne({eventType, active: true}): line 29 of processEvent,
\* line 203 inside the replay loop of recalculateLeadScore (lines 202-226)
ScoringRule_findOne(w) ==
  /\ pc[w] \in {"L29", "L203"}
  /\ IF pc[w] = "L29"
       THEN LET rule == rules[loc[w].eventType] IN
            IF ~rule.active
              THEN Throw(w, "No active scoring rule found")
              ELSE Goto(w, IF loc[w].existingEvent THEN "L52" ELSE "L47",
                        [loc[w] EXCEPT !.rulePoints = rule.points])
       ELSE LET l == loc[w]
                e == Head(l.recalcEvents)
                rule == rules[events[e].eventType]
                prevScore == l.totalScore
                total == Clamp(prevScore + rule.points)
                row == [leadId |-> l.leadId, score |-> total,
                        previousScore |-> prevScore, change |-> total - prevScore,
                        eventId |-> e, eventType |-> events[e].eventType,
                        timestamp |-> events[e].timestamp]
                next == IF rule.active
                          THEN [l EXCEPT !.recalcEvents = Tail(@),
                                         !.totalScore = total,
                                         !.newHistory = Append(@, row)]
                          ELSE [l EXCEPT !.recalcEvents = Tail(@)]
            IN  Goto(w, IF Tail(l.recalcEvents) = <<>> THEN "L228" ELSE "L203", next)
  /\ UNCHANGED <<store, emitted, payload, applied, nRequests, nRuleUpdates>>

\* event.save(): line 47 inserts the Event when line 14 found none (lines
\* 36-48; the unique index on eventId, Event.js:4 and 18, rejects a second
\* insert), line 66 marks the out-of-order event processed (lines 64-66)
Event_save(w) ==
  /\ pc[w] \in {"L47", "L66"}
  /\ LET l == loc[w]
         e == l.eventId
     IN
     IF pc[w] = "L47"
       THEN IF events[e].exists
              THEN /\ Throw(w, "E11000 duplicate key")
                   /\ events' = events
              ELSE /\ events' = [events EXCEPT ![e] =
                          [exists |-> TRUE, eventType |-> l.eventType,
                           leadId |-> l.leadId, timestamp |-> l.timestamp,
                           processed |-> FALSE]]
                   /\ Goto(w, "L52", [l EXCEPT !.eventTimestamp = l.timestamp])
       ELSE /\ events' = [events EXCEPT ![e].processed = TRUE]
            /\ Goto(w, "L186", l)
  /\ UNCHANGED <<leads, rules, history, emitted, payload, applied, nRequests, nRuleUpdates>>

\* the timestamps of the ScoreHistory rows of a lead
HistoryTimes(leadId) ==
  {history[i].timestamp : i \in {j \in 1..Len(history) : history[j].leadId = leadId}}

SetMax(S) == CHOOSE x \in S : \A y \in S : y <= x

\* the comparison of line 59 without its `latestHistory &&`: a lead with no
\* ScoreHistory row takes the event for out of order
ScoreHistory_findOne_NoRow(w) ==
  /\ pc[w] = "L52"
  /\ LET l == loc[w]
         times == HistoryTimes(l.leadId)
         isOutOfOrder == times = {} \/ l.eventTimestamp < SetMax(times)
     IN  Goto(w, IF isOutOfOrder THEN "L66" ELSE "L106", l)
  /\ UNCHANGED <<store, emitted, payload, applied, nRequests, nRuleUpdates>>

\* ScoreHistory.findOne({leadId}).sort({timestamp: -1}) and the comparison of
\* lines 51-59
ScoreHistory_findOne(w) ==
  /\ pc[w] = "L52"
  /\ LET l == loc[w]
         times == HistoryTimes(l.leadId)
         isOutOfOrder == times # {} /\ l.eventTimestamp < SetMax(times)
     IN  Goto(w, IF isOutOfOrder THEN "L66" ELSE "L106", l)
  /\ UNCHANGED <<store, emitted, payload, applied, nRequests, nRuleUpdates>>

\* a save that is not confined to the loaded lead: the score goes to every lead
SaveScore_EveryLead(leadId, loaded, value) ==
  IF value = loaded THEN leads
  ELSE [l \in LeadIds |->
          IF leads[l].exists THEN [leads[l] EXCEPT !.currentScore = value]
          ELSE leads[l]]

\* a save that takes a score of 0 for a missing value and leaves the stored one
SaveScore_Falsy(leadId, loaded, value) ==
  IF value = loaded \/ value = 0 THEN leads
  ELSE [leads EXCEPT ![leadId].currentScore = value]

\* lead.save() writes the paths that were modified on the loaded document:
\* currentScore goes to the store only when the assigned value differs from
\* the loaded one
SaveScore(leadId, loaded, value) ==
  IF value = loaded THEN leads ELSE [leads EXCEPT ![leadId].currentScore = value]

\* lead.save(): lines 94-106 of processEvent (the in-order delta), lines
\* 234-236 of recalculateLeadScore.
\* In processEvent the code that runs when the save has resolved is
\* new ScoreHistory({..., change, ...}) (lines 108-117): processEvent declares
\* no `change`, so the object literal throws ReferenceError before
\* historyEntry.save(); lines 118-146 are never reached and the call ends in
\* the catch of lines 147-150.
\* In recalculateLeadScore the save is followed by the return of lines
\* 242-247 and, on the out-of-order path, by lines 70-91 of processEvent.
Lead_save(w) ==
  /\ pc[w] \in {"L106", "L236"}
  /\ LET l == loc[w] IN
     IF pc[w] = "L106"
       THEN LET previousScore == l.leadScore
                newScore == Clamp(previousScore + l.rulePoints)
            IN  /\ leads' = SaveScore(l.leadId, previousScore, newScore)
                /\ applied' = [applied EXCEPT ![l.eventId] = @ + 1]
                /\ Throw(w, "change is not defined")
                /\ emitted' = emitted
       ELSE /\ leads' = SaveScore(l.leadId, l.previousScore, l.totalScore)
            /\ applied' = applied
            /\ IF l.op = "recalculate"
                 THEN /\ Done(w, [NoResult EXCEPT
                                    !.kind = "recalc", !.leadId = l.leadId,
                                    !.previousScore = l.previousScore,
                                    !.newScore = l.totalScore,
                                    !.eventsProcessed = l.eventsProcessed])
                      /\ emitted' = emitted
                 ELSE /\ emitted' = Append(emitted,
                            [leadId |-> l.leadId, previousScore |-> l.previousScore,
                             newScore |-> l.totalScore,
                             change |-> l.totalScore - l.previousScore,
                             eventType |-> l.eventType,
                             timestamp |-> l.eventTimestamp, outOfOrder |-> TRUE])
                      /\ Done(w, [NoResult EXCEPT
                                    !.kind = "success", !.outOfOrder = TRUE,
                                    !.eventId = l.eventId, !.leadId = l.leadId,
                                    !.previousScore = l.previousScore,
                                    !.newScore = l.totalScore,
                                    !.change = l.totalScore - l.previousScore])
  /\ UNCHANGED <<rules, events, history, payload, nRequests, nRuleUpdates>>

\* the sequences that hold each element of S once
RECURSIVE Orderings(_)
Orderings(S) ==
  IF S = {} THEN {<<>>}
  ELSE UNION {{<<x>> \o rest : rest \in Orderings(S \ {x})} : x \in S}

\* Event.find without the processed: true filter of line 194
Event_find_Unfiltered(w) ==
  /\ pc[w] = "L194"
  /\ LET l == loc[w]
         found == {e \in EventIds : events[e].exists /\ events[e].leadId = l.leadId}
     IN  \E sorted \in Orderings(found) :
           /\ \A i, j \in 1..Len(sorted) :
                 i < j => events[sorted[i]].timestamp <= events[sorted[j]].timestamp
           /\ Goto(w, IF sorted = <<>> THEN "L228" ELSE "L203",
                   [l EXCEPT !.recalcEvents = sorted, !.eventsProcessed = Len(sorted),
                             !.totalScore = 0, !.newHistory = <<>>])
  /\ UNCHANGED <<store, emitted, payload, applied, nRequests, nRuleUpdates>>

\* Event.find({leadId, processed: true}).sort({timestamp: 1}), lines 194-196:
\* ascending timestamps; the store fixes no order among equal timestamps
Event_find(w) ==
  /\ pc[w] = "L194"
  /\ LET l == loc[w]
         found == {e \in EventIds : /\ events[e].exists
                                    /\ events[e].processed
                                    /\ events[e].leadId = l.leadId}
     IN  \E sorted \in Orderings(found) :
           /\ \A i, j \in 1..Len(sorted) :
                 i < j => events[sorted[i]].timestamp <= events[sorted[j]].timestamp
           /\ Goto(w, IF sorted = <<>> THEN "L228" ELSE "L203",
                   [l EXCEPT !.recalcEvents = sorted, !.eventsProcessed = Len(sorted),
                             !.totalScore = 0, !.newHistory = <<>>])
  /\ UNCHANGED <<store, emitted, payload, applied, nRequests, nRuleUpdates>>

NotOfLead(leadId, row) == row.leadId # leadId

\* ScoreHistory.deleteMany({leadId}), line 228
ScoreHistory_deleteMany(w) ==
  /\ pc[w] = "L228"
  /\ history' = SelectSeq(history, LAMBDA row : NotOfLead(loc[w].leadId, row))
  /\ Goto(w, "L231", loc[w])
  /\ UNCHANGED <<leads, rules, events, emitted, payload, applied, nRequests, nRuleUpdates>>

\* if (newHistory.length > 0) ScoreHistory.insertMany(newHistory), lines 230-232
ScoreHistory_insertMany(w) ==
  /\ pc[w] = "L231"
  /\ history' = IF Len(loc[w].newHistory) > 0 THEN history \o loc[w].newHistory
                ELSE history
  /\ Goto(w, "L236", loc[w])
  /\ UNCHANGED <<leads, rules, events, emitted, payload, applied, nRequests, nRuleUpdates>>

\* the call has written to the store, or waits for its first write
Writing(w) ==
  /\ pc[w] \notin {"idle", "L14", "L24", "L29"}
  /\ loc[w].op = "recalculate" => pc[w] \in {"L228", "L231", "L236"}

\* the store operation a call is waiting for rejects (connection lost, write
\* refused): the await throws and the call ends through lines 147-150.  A
\* read that rejects before the call has written anything leaves the store as
\* a call turned away does; only the rejections from the first write on are
\* followed.
StoreError(w) ==
  /\ Writing(w)
  /\ Throw(w, "store error")
  /\ UNCHANGED <<store, emitted, payload, applied, nRequests, nRuleUpdates>>

\* processBatch without the sort of lines 154-156: the events are taken in
\* the order of the input array
SortByTimestamp_Unsorted(batch) == batch

\* events.sort((a, b) => new Date(a.timestamp) - new Date(b.timestamp)),
\* lines 154-156: ascending timestamps, equal timestamps keep their input order
RECURSIVE SortByTimestamp(_)
SortByTimestamp(batch) ==
  IF batch = <<>> THEN <<>>
  ELSE LET front == SortByTimestamp(SubSeq(batch, 1, Len(batch) - 1))
           e == batch[Len(batch)]
           k == Cardinality({i \in 1..Len(front) :
                               payload[front[i]].timestamp <= payload[e].timestamp})
       IN  SubSeq(front, 1, k) \o <<e>> \o SubSeq(front, k + 1, Len(front))

\* the batches followed hold at least two events: a batch of one event is
\* processEvent with the counters of lines 158-163 around it
BatchInputs == UNION {[1..n -> EventIds] : n \in 2..MaxBatch}

\* processBatch(events), lines 153-183: POST /api/events/batch with sync
\* (server.js:192) and the file upload route; the loop body is processEvent
Call_processBatch(w, batch) ==
  /\ pc[w] = "idle"
  /\ nRequests + Len(batch) <= MaxRequests
  /\ nRequests' = nRequests + Len(batch)
  /\ LET sortedEvents == SortByTimestamp(batch)
         e == Head(sortedEvents)
     IN  /\ pc' = [pc EXCEPT ![w] = "L14"]
         /\ loc' = Arrival(w, [EventLoc("processBatch", e) EXCEPT
                                  !.batchRest = Tail(sortedEvents),
                                  !.sortedEvents = sortedEvents, !.alone = Quiet])
         /\ overlapped' = OverlapAfterStart(w, e)
  /\ returned' = NoResult
  /\ response' = NoResponse
  /\ batchReturned' = NoBatchResult
  /\ UNCHANGED <<store, emitted, payload, applied, outcomes, nRuleUpdates, jobs>>

\* ------------------------------------------------------- the event queue
\* getPriority with the table of lines 265-271 upside down
getPriority_Reversed(eventType) ==
  IF eventType = "purchase" THEN 5
  ELSE IF eventType = "demo_request" THEN 4
  ELSE IF eventType = "form_submission" THEN 3
  ELSE IF eventType = "email_open" THEN 2
  ELSE IF eventType = "page_view" THEN 1
  ELSE 5

\* getPriority(eventType), part_004:264-274: priorities[eventType] || 5
\* (Bull runs the lower number first)
getPriority(eventType) ==
  IF eventType = "purchase" THEN 1
  ELSE IF eventType = "demo_request" THEN 2
  ELSE IF eventType = "form_submission" THEN 3
  ELSE IF eventType = "email_open" THEN 4
  ELSE IF eventType = "page_view" THEN 5
  ELSE 5

\* eventQueue.add with removeOnFail: true instead of line 149: a failed job
\* is gone from the queue and its id is free again
eventQueue_add_RemoveOnFail(queue, jobId, e) ==
  IF queue[jobId].state \notin {"none", "failed"}
    THEN queue
    ELSE [queue EXCEPT ![jobId] = [NoJob EXCEPT !.state = "waiting", !.eventId = e]]

\* eventQueue.add(data, {jobId}) of part_004:185-191: Bull stores the job
\* under jobId, waiting, unless it already holds a job under that id, and
\* then the add is ignored
eventQueue_add(queue, jobId, e) ==
  IF queue[jobId].state # "none"
    THEN queue
    ELSE [queue EXCEPT ![jobId] = [NoJob EXCEPT !.state = "waiting", !.eventId = e]]

\* addEvent without the jobId option of line 188: Bull numbers the job itself
AddEvent_NoJobId(e) ==
  /\ \E j \in AutoJobIds :
       /\ jobs[j].state = "none"
       /\ jobs' = eventQueue_add(jobs, j, e)
       /\ response' = [NoResponse EXCEPT !.status = 202, !.jobId = j]
  /\ loc' = Arrival("none", NoLoc)
  /\ returned' = NoResult
  /\ batchReturned' = NoBatchResult
  /\ UNCHANGED <<store, pc, emitted, payload, applied, outcomes, overlapped,
                 nRequests, nRuleUpdates>>

\* POST /api/events without sync (server.js:175-183) -> addEvent,
\* part_004:184-198: the job is added under jobId = eventId and the route
\* answers 202 with the job's id
AddEvent(e) ==
  /\ jobs' = eventQueue_add(jobs, e, e)
  /\ response' = [NoResponse EXCEPT !.status = 202, !.jobId = e]
  /\ loc' = Arrival("none", NoLoc)
  /\ returned' = NoResult
  /\ batchReturned' = NoBatchResult
  /\ UNCHANGED <<store, pc, emitted, payload, applied, outcomes, overlapped,
                 nRequests, nRuleUpdates>>

\* addBatch(events), part_004:200-216: one addBulk with a job per event,
\* each under jobId = eventId
AddBatch(batch) ==
  /\ jobs' = [j \in JobIds |->
               IF \E i \in 1..Len(batch) : batch[i] = j
                 THEN eventQueue_add(jobs, j, j)[j]
                 ELSE jobs[j]]
  /\ loc' = Arrival("none", NoLoc)
  /\ returned' = NoResult
  /\ batchReturned' = NoBatchResult
  /\ UNCHANGED <<store, pc, emitted, payload, applied, outcomes, overlapped,
                 nRequests, nRuleUpdates>>

\* the size check of validateBatchEvents, part_001:92
maxBatchEvents == 1000

\* validateBatchEvents with >= for the > of line 92
validateBatchEvents_AtLeast(length) ==
  IF length = 0
    THEN [NoResponse EXCEPT !.status = 400, !.error = "events array cannot be empty"]
  ELSE IF length >= maxBatchEvents
    THEN [NoResponse EXCEPT !.status = 400, !.length = length,
                            !.error = "Maximum 1000 events allowed per batch"]
  ELSE NoResponse

\* validateBatchEvents(req, res, next), part_001:74-119, for an array of
\* events.length = length events that each pass the checks of lines
\* 101-111: the 400 answer it sends, or NoResponse when it calls next()
validateBatchEvents(length) ==
  IF length = 0
    THEN [NoResponse EXCEPT !.status = 400, !.error = "events array cannot be empty"]
  ELSE IF length > maxBatchEvents
    THEN [NoResponse EXCEPT !.status = 400, !.length = length,
                            !.error = "Maximum 1000 events allowed per batch"]
  ELSE NoResponse

\* the body lengths followed: around the limits of part_001:86 and 92
BodyLengths == {0, MaxBatch, maxBatchEvents, maxBatchEvents + 1}

\* the eventIds a posted events array carries, in the order of the array:
\* as many as there are events, each of them any event
BodyEvents == [1..Cardinality(EventIds) -> EventIds]

\* POST /api/events/batch without sync (server.js:187-199), the body an
\* array of n events that carry the eventIds of batch, over and over when
\* n is larger: the handler runs only when the validateBatchEvents
\* middleware has called next(), and answers 202 after addBatch (line 197)
PostEventsBatch(n, batch) ==
  IF validateBatchEvents(n).status # 0
    THEN /\ response' = validateBatchEvents(n)
         /\ returned' = NoResult
         /\ batchReturned' = NoBatchResult
         /\ UNCHANGED <<store, pc, loc, emitted, payload, applied, outcomes,
                        overlapped, nRequests, nRuleUpdates, jobs>>
    ELSE LET events_ == IF n < Len(batch) THEN SubSeq(batch, 1, n) ELSE batch IN
         /\ AddBatch(events_)
         /\ response' = [NoResponse EXCEPT !.status = 202, !.length = n]

\* the concurrency argument of eventQueue.process(5, ...), part_004:153
concurrency == 5

\* the jobs whose processor call is running
Active == {j \in DOMAIN jobs : jobs[j].state = "active"}

\* eventQueue.process(5, async (job) => ...), part_004:153-159: while fewer
\* than `concurrency` processor calls are running, a free worker takes the
\* waiting job of the best priority and calls processEvent with its eventData
Job_start(w, j) ==
  /\ pc[w] = "idle"
  /\ jobs[j].state = "waiting"
  /\ Cardinality(Active) < concurrency
  /\ \A f \in JobIds :
       jobs[f].state = "waiting"
       => getPriority(payload[jobs[j].eventId].eventType)
            <= getPriority(payload[jobs[f].eventId].eventType)
  /\ jobs' = [jobs EXCEPT ![j].state = "active"]
  /\ pc' = [pc EXCEPT ![w] = "L14"]
  /\ loc' = Arrival(w, [EventLoc("job", jobs[j].eventId) EXCEPT
                           !.jobId = j, !.alone = Quiet])
  /\ overlapped' = OverlapAfterStart(w, jobs[j].eventId)
  /\ returned' = NoResult
  /\ batchReturned' = NoBatchResult
  /\ response' = NoResponse
  /\ UNCHANGED <<store, emitted, payload, applied, outcomes, nRequests, nRuleUpdates>>

\* the backoff delay of a failed attempt (part_004:141-144) is over: the job
\* waits for a worker again
Backoff(j) ==
  /\ jobs[j].state = "delayed"
  /\ jobs' = [jobs EXCEPT ![j].state = "waiting"]
  /\ returned' = NoResult
  /\ batchReturned' = NoBatchResult
  /\ response' = NoResponse
  /\ UNCHANGED <<store, pc, loc, emitted, payload, applied, outcomes, overlapped,
                 nRequests, nRuleUpdates>>

\* getJobStatus(jobId), part_004:237-257
getJobStatus(jobId) ==
  IF jobs[jobId].state = "none"
    THEN [error |-> "Job not found"]
    ELSE [jobId |-> jobId, state |-> jobs[jobId].state,
          attemptsMade |-> jobs[jobId].attemptsMade,
          failedReason |-> jobs[jobId].failedReason]

Next ==
  \/ \E l \in LeadIds : CreateLead(l)
  \/ \E t \in EventTypes :
       \/ \E p \in RulePoints : UpdateRule(t, p, rules[t].active)
       \/ UpdateRule(t, rules[t].points, ~rules[t].active)
  \/ \E w \in Workers, e \in EventIds : Call_processEvent(w, e)
  \/ \E w \in Workers, batch \in BatchInputs : Call_processBatch(w, batch)
  \/ \E w \in Workers, l \in LeadIds : Call_recalculateLeadScore(w, l)
  \/ \E w \in Workers : Event_findOne(w)
  \/ \E w \in Workers : Lead_findById(w)
  \/ \E w \in Workers : ScoringRule_findOne(w)
  \/ \E w \in Workers : Event_save(w)
  \/ \E w \in Workers : ScoreHistory_findOne(w)
  \/ \E w \in Workers : Lead_save(w)
  \/ \E w \in Workers : Event_find(w)
  \/ \E w \in Workers : ScoreHistory_deleteMany(w)
  \/ \E w \in Workers : ScoreHistory_insertMany(w)
  \/ \E w \in Workers : StoreError(w)

Spec == Init /\ [][Next]_vars

\* queued ingestion: events arrive through the queue only and the workers of
\* eventQueue.process run them; the store answers every operation
Processing ==
  \/ \E w \in Workers, j \in JobIds : Job_start(w, j)
  \/ \E j \in JobIds : Backoff(j)
  \/ \E w \in Workers : Event_findOne(w)
  \/ \E w \in Workers : Lead_findById(w)
  \/ \E w \in Workers : ScoringRule_findOne(w)
  \/ \E w \in Workers : Event_save(w)
  \/ \E w \in Workers : ScoreHistory_findOne(w)
  \/ \E w \in Workers : Lead_save(w)

\* the queue's clients: leads are created while events are posted; the rules
\* stay as they are
QueueNext ==
  \/ \E l \in LeadIds : CreateLead(l)
  \/ \E e \in EventIds : AddEvent(e)
  \/ \E n \in BodyLengths, batch \in BodyEvents : PostEventsBatch(n, batch)
  \/ Processing

QueueSpec == Init /\ [][QueueNext]_vars

\* the queue's workers keep running: a job that can be started, retried or
\* continued is not left alone for ever
FairQueueSpec == QueueSpec /\ WF_vars(Processing)

\* ------------------------------------------- the processor's concurrency
\* more queued events than the processor has room for
ManyEventIds == {"e1", "e2", "e3", "e4", "e5", "e6"}

\* eventQueue.process with a concurrency of 6
Process_start_Six(j) ==
  /\ jobs[j].state = "waiting"
  /\ Cardinality(Active) < concurrency + 1
  /\ jobs' = [jobs EXCEPT ![j].state = "active"]
  /\ response' = NoResponse
  /\ UNCHANGED <<store, pc, loc, returned, batchReturned, emitted, ghost>>

\* eventQueue.process(5, async (job) => ...), part_004:153: Bull calls the
\* processor for a waiting job while fewer than `concurrency` calls of it
\* are running.  Here only the start and the end of the call are followed.
Process_start(j) ==
  /\ jobs[j].state = "waiting"
  /\ Cardinality(Active) < concurrency
  /\ jobs' = [jobs EXCEPT ![j].state = "active"]
  /\ response' = NoResponse
  /\ UNCHANGED <<store, pc, loc, returned, batchReturned, emitted, ghost>>

\* the processor's call of processEvent has thrown (lines 160-163; it always
\* does for an event that reaches line 106) and Bull settles the attempt
Process_end(j) ==
  /\ jobs[j].state = "active"
  /\ jobs' = [jobs EXCEPT ![j] =
               Settle(@, [NoResult EXCEPT !.kind = "error",
                                          !.error = "change is not defined"])]
  /\ response' = NoResponse
  /\ UNCHANGED <<store, pc, loc, returned, batchReturned, emitted, ghost>>

\* the queue starts empty, with room for the jobs of ManyEventIds
ConcurrencyInit ==
  /\ leads = [l \in LeadIds |-> [exists |-> l = "L1", currentScore |-> 0]]
  /\ rules = defaultRules
  /\ events = [e \in EventIds |-> NoEvent]
  /\ history = <<>>
  /\ pc = [w \in Workers |-> "idle"]
  /\ loc = [w \in Workers |-> NoLoc]
  /\ returned = NoResult
  /\ batchReturned = NoBatchResult
  /\ emitted = <<>>
  /\ payload \in EventData
  /\ applied = [e \in EventIds |-> 0]
  /\ outcomes = [e \in EventIds |-> <<>>]
  /\ overlapped = [e \in EventIds |-> FALSE]
  /\ nRequests = 0
  /\ nRuleUpdates = 0
  /\ jobs = [j \in ManyEventIds |-> NoJob]
  /\ response = NoResponse

\* events are enqueued one by one and the processor runs the first attempt
\* of each job
ConcurrencyNext ==
  \/ \E j \in ManyEventIds : AddEvent(j)
  \/ \E j \in ManyEventIds : Process_start(j)
  \/ \E j \in ManyEventIds : Process_end(j)

ConcurrencySpec == ConcurrencyInit /\ [][ConcurrencyNext]_vars

\* ------------------------------------------------------------------ types
TypeOK ==
  /\ \A l \in LeadIds : leads[l].currentScore \in Int
  /\ \A w \in Workers :
       pc[w] \in {"idle", "L14", "L24", "L29", "L47", "L52", "L66", "L106",
                  "L186", "L194", "L203", "L228", "L231", "L236"}
  /\ nRequests \in 0..MaxRequests
  /\ \A j \in JobIds :
       /\ jobs[j].state \in {"none", "waiting", "active", "delayed", "completed", "failed"}
       /\ jobs[j].attemptsMade \in 0..attempts

\* ------------------------------------------------------------- properties
RowsOfEvent(e) == Cardinality({i \in 1..Len(history) : history[i].eventId = e})

BusyOnLead(leadId) == \E w \in Workers : pc[w] # "idle" /\ loc[w].leadId = leadId

\* outcomes of a call that was turned away or lost its store
Rejected == {"Lead not found", "No active scoring rule found", "store error"}

\* the ledger of a lead agrees with its score: the score of a latest row, 0
\* when there is none
Agrees(leadId) ==
  IF HistoryTimes(leadId) = {}
    THEN leads[leadId].currentScore = 0
    ELSE \E i \in 1..Len(history) :
           /\ history[i].leadId = leadId
           /\ history[i].timestamp = SetMax(HistoryTimes(leadId))
           /\ history[i].score = leads[leadId].currentScore

\* C1: when a call of processEvent for an event of an existing lead with an
\* active rule has ended and a second call for the same eventId then ends (the
\* two not overlapping), the second call returns duplicate:true, ScoreHistory
\* holds exactly one row of that eventId and the eventId's points were applied
\* to the lead exactly once.
SequentialIdempotency ==
  \A e \in EventIds :
    ( /\ returned.eventId = e
      /\ Len(outcomes[e]) = 2
      /\ ~overlapped[e]
      /\ \A i \in 1..2 : outcomes[e][i] \notin Rejected )
    => /\ returned.duplicate
       /\ RowsOfEvent(e) = 1
       /\ applied[e] = 1

\* C2: whatever attempts for an eventId failed before the event was marked
\* processed, re-delivering it one attempt after the other changes the lead's
\* score by that eventId at most once and leaves at most one ScoreHistory row
\* of that eventId.
RetrySafety ==
  \A e \in EventIds :
    ~overlapped[e] => applied[e] <= 1 /\ RowsOfEvent(e) <= 1

\* C3: after two calls of processEvent for the same eventId that ran at the
\* same time have both ended (neither turned away), there is one Event record,
\* exactly one ScoreHistory row and exactly one application of the points for
\* that eventId.
ConcurrentIdempotency ==
  \A e \in EventIds :
    ( /\ overlapped[e]
      /\ Len(outcomes[e]) = 2
      /\ \A w \in Workers : ~(InFlight(w) /\ loc[w].eventId = e)
      /\ \A i \in 1..2 : outcomes[e][i] \notin Rejected )
    => /\ events[e].exists
       /\ RowsOfEvent(e) = 1
       /\ applied[e] = 1

\* C4: in every reachable state every lead's currentScore and the score of
\* every ScoreHistory row lie in [0, MAX_SCORE].
ClampBound ==
  /\ \A l \in LeadIds : leads[l].currentScore \in 0..MAX_SCORE
  /\ \A i \in 1..Len(history) : history[i].score \in 0..MAX_SCORE

\* a delta that would have passed MAX_SCORE has just been saved at the cap
ClampBound_Witness ==
  \E e \in EventIds :
    /\ returned.eventId = e
    /\ returned.error = "change is not defined"
    /\ applied[e] = 2
    /\ rules[payload[e].eventType].points * 2 > MAX_SCORE
    /\ leads[payload[e].leadId].currentScore = MAX_SCORE

\* C5: whenever no call is in progress for a lead, also after a failed
\* processEvent or recalculateLeadScore, its currentScore is the score of its
\* ScoreHistory row with the greatest timestamp, or 0 when it has no row.
ScoreLedgerAgreement ==
  \A l \in LeadIds : (leads[l].exists /\ ~BusyOnLead(l)) => Agrees(l)

HistoryOf(leadId) == SelectSeq(history, LAMBDA row : row.leadId = leadId)

ProcessedOf(leadId) ==
  {e \in EventIds : /\ events[e].exists
                    /\ events[e].processed
                    /\ events[e].leadId = leadId}

\* the rows a replay from `score` of the events of `order` through the rule
\* table gives, clamping at every step
RECURSIVE ReplayRows(_, _, _)
ReplayRows(order, score, leadId) ==
  IF order = <<>> THEN <<>>
  ELSE LET e == Head(order)
           rule == rules[events[e].eventType]
           new == Clamp(score + rule.points)
           row == [leadId |-> leadId, score |-> new, previousScore |-> score,
                   change |-> new - score, eventId |-> e,
                   eventType |-> events[e].eventType,
                   timestamp |-> events[e].timestamp]
       IN  IF rule.active
             THEN <<row>> \o ReplayRows(Tail(order), new, leadId)
             ELSE ReplayRows(Tail(order), score, leadId)

FinalScore(rows) == IF rows = <<>> THEN 0 ELSE rows[Len(rows)].score

Occurrences(rows, row) == Cardinality({i \in 1..Len(rows) : rows[i] = row})

SameRows(a, b) ==
  /\ Len(a) = Len(b)
  /\ \A i \in 1..Len(a) : Occurrences(a, a[i]) = Occurrences(b, a[i])

\* every request served so far was a call of processEvent that has ended
\* without being turned away, and no rule was changed
OnlyCompletedEvents ==
  /\ \A w \in Workers : pc[w] = "idle"
  /\ nRuleUpdates = 0
  /\ nRequests = Len(outcomes["e1"]) + Len(outcomes["e2"])
  /\ \A e \in EventIds : \A i \in 1..Len(outcomes[e]) : outcomes[e][i] \notin Rejected

\* C6: after any sequence of completed processEvent calls (rules unchanged),
\* replaying the processed events of a lead in timestamp order from score 0,
\* clamping at each step, gives the stored currentScore and the stored
\* ScoreHistory rows of the lead.
ReplayInvariant ==
  \A l \in LeadIds :
    (leads[l].exists /\ OnlyCompletedEvents)
    => \E order \in Orderings(ProcessedOf(l)) :
         /\ \A i, j \in 1..Len(order) :
               i < j => events[order[i]].timestamp <= events[order[j]].timestamp
         /\ leads[l].currentScore = FinalScore(ReplayRows(order, 0, l))
         /\ SameRows(HistoryOf(l), ReplayRows(order, 0, l))

\* C7: when one call of processEvent for each of two different events of the
\* same lead has ended (in whatever interleaving), the lead's score is the one
\* that some serial order of the two calls gives: both deltas are in it.
PerLeadSerialization ==
  ( /\ OnlyCompletedEvents
    /\ Len(outcomes["e1"]) = 1 /\ Len(outcomes["e2"]) = 1
    /\ payload["e1"].leadId = payload["e2"].leadId )
  => LET l == payload["e1"].leadId
         p1 == rules[payload["e1"].eventType].points
         p2 == rules[payload["e2"].eventType].points
     IN  leads[l].currentScore \in {Clamp(Clamp(0 + p1) + p2), Clamp(Clamp(0 + p2) + p1)}

\* C8: when recalculateLeadScore has failed between its steps and no call is
\* in progress for the lead, the lead's ledger and currentScore are still a
\* consistent pair: the ledger agrees with currentScore.
AtomicRecalculation ==
  \A l \in LeadIds :
    ( /\ returned.kind = "error"
      /\ returned.error = "store error"
      /\ returned.eventId = "none"
      /\ returned.leadId = l
      /\ ~BusyOnLead(l) )
    => Agrees(l)

Min(a, b) == IF a < b THEN a ELSE b
Max(a, b) == IF a > b THEN a ELSE b

\* C9: a call of processEvent for a new event that takes the in-order path
\* (it reaches line 94) and whose store operations succeed returns success
\* with previousScore = the score the lead had, newScore = min(MAX, max(0,
\* previousScore + rule.points)) and change = newScore - previousScore, and
\* leaves currentScore = newScore, exactly one ScoreHistory row of the event
\* and the event marked processed.
InOrderPath ==
  [][ \A w \in Workers :
        ( /\ pc[w] = "L106"
          /\ ~loc[w].existingEvent
          /\ returned'.worker = w
          /\ returned'.error # "store error" )
        => LET e == loc[w].eventId
               l == loc[w].leadId
               newScore == Min(MAX_SCORE, Max(0, loc[w].leadScore + loc[w].rulePoints))
           IN  /\ returned'.kind = "success"
               /\ ~returned'.duplicate /\ ~returned'.outOfOrder
               /\ returned'.previousScore = loc[w].leadScore
               /\ returned'.newScore = newScore
               /\ returned'.change = newScore - loc[w].leadScore
               /\ leads'[l].currentScore = newScore
               /\ Cardinality({i \in 1..Len(history') : history'[i].eventId = e}) = 1
               /\ events'[e].processed ]_vars

\* every event of the set is an event of lead leadId and was delivered to
\* processEvent once, no delivery turned away, rules unchanged
DeliveredOnce(leadId) ==
  /\ nRuleUpdates = 0
  /\ \A e \in EventIds :
       /\ payload[e].leadId = leadId
       /\ Len(outcomes[e]) = 1
       /\ outcomes[e][1] \notin Rejected

RecalculationIdempotent ==
  \A l \in LeadIds :
    ( /\ returned.kind = "recalc"
      /\ returned.leadId = l
      /\ returned.repeat
      /\ returned.alone )
    => /\ returned.previousScore = returned.newScore
       /\ leads[l].currentScore = returned.previousScore
       /\ HistoryOf(l) = returned.before

\* the second of two recalculations of a lead whose score a delivery had changed
RecalculationIdempotent_Witness ==
  /\ returned.kind = "recalc"
  /\ returned.repeat
  /\ returned.alone
  /\ \E e \in EventIds : applied[e] = 1 /\ payload[e].leadId = returned.leadId

\* row is a row of the lead and no row of the lead has an earlier timestamp
IsEarliestRow(leadId, row) ==
  /\ row.leadId = leadId
  /\ \A i \in 1..Len(history) :
       history[i].leadId = leadId => row.timestamp <= history[i].timestamp

\* C14: the out-of-order example with one later event in place of ten: after
\* an event f of a lead was processed, processing an event e of the same lead
\* with an earlier timestamp triggers the recalculation: the call returns
\* outOfOrder:true, currentScore is the replay of both events in timestamp
\* order, and the regenerated ScoreHistory has one row per event, the earliest
\* being the row of e with previousScore 0 and score = clamp(points of e).
OutOfOrderExample ==
  \A e, f \in EventIds :
    ( /\ returned.eventId = e
      /\ returned.alone
      /\ DeliveredOnce(payload[e].leadId)
      /\ payload[e].timestamp < payload[f].timestamp )
    => LET l == payload[e].leadId
           pe == rules[payload[e].eventType].points
           pf == rules[payload[f].eventType].points
       IN  /\ returned.kind = "success"
           /\ returned.outOfOrder
           /\ leads[l].currentScore = Clamp(Clamp(0 + pe) + pf)
           /\ Len(HistoryOf(l)) = 2
           /\ \E i \in 1..Len(history) :
                 /\ IsEarliestRow(l, history[i])
                 /\ history[i].eventId = e
                 /\ history[i].previousScore = 0
                 /\ history[i].score = Clamp(0 + pe)

\* C15: the score is clamped to [0, MAX_SCORE] after every single event: the
\* save of the in-order path stores min(MAX, max(0, score + points)) for the
\* score and the points the call has read (the score still being the stored
\* one: no other call has written it since), and each replay step of
\* recalculateLeadScore that finds an active rule takes the running total to
\* min(MAX, max(0, total + points)) and records it in the row of the event;
\* so the result is the left fold over the events, not a clamp of the sum.
StepwiseClamping ==
  [][ \A w \in Workers :
        /\ ( /\ pc[w] = "L106"
             /\ returned'.worker = w
             /\ returned'.error # "store error"
             /\ leads[loc[w].leadId].currentScore = loc[w].leadScore )
           => leads'[loc[w].leadId].currentScore =
                Min(MAX_SCORE, Max(0, loc[w].leadScore + loc[w].rulePoints))
        /\ ( /\ pc[w] = "L203"
             /\ pc'[w] \in {"L203", "L228"}
             /\ rules[events[Head(loc[w].recalcEvents)].eventType].active )
           => LET points == rules[events[Head(loc[w].recalcEvents)].eventType].points
                  total == Min(MAX_SCORE, Max(0, loc[w].totalScore + points))
                  rows == loc'[w].newHistory
              IN  /\ loc'[w].totalScore = total
                  /\ Len(rows) = Len(loc[w].newHistory) + 1
                  /\ rows[Len(rows)].score = total
                  /\ rows[Len(rows)].previousScore = loc[w].totalScore ]_vars

\* two events of a lead were applied one after the other and the score is
\* the fold of the two clamped steps, which a clamp of the summed points
\* would not have given
StepwiseClamping_Witness ==
  \E e, f \in EventIds :
    LET l == payload[e].leadId
        pe == rules[payload[e].eventType].points
        pf == rules[payload[f].eventType].points
    IN  /\ e # f
        /\ payload[f].leadId = l
        /\ returned.eventId = f
        /\ returned.alone
        /\ returned.error = "change is not defined"
        /\ Len(outcomes[e]) = 1 /\ Len(outcomes[f]) = 1
        /\ applied[e] = 1 /\ applied[f] = 1
        /\ leads[l].currentScore = Clamp(Clamp(0 + pe) + pf)
        /\ leads[l].currentScore # Clamp(pe + pf)

\* worker w runs recalculateLeadScore for leadId (as the manual request or
\* inside processEvent's out-of-order path) and waits for its delete, insert
\* or save step
Rebuilding(w, leadId) ==
  /\ pc[w] \in {"L228", "L231", "L236"}
  /\ loc[w].leadId = leadId

\* it has deleted the old rows and not yet saved the score
MidRebuild(w, leadId) ==
  /\ pc[w] \in {"L231", "L236"}
  /\ loc[w].leadId = leadId

\* C16: two executions of recalculateLeadScore for the same lead never
\* interleave their delete/insert/save steps (while one is between its delete
\* and its save no other is at one of these steps for the lead), and the
\* lead's ScoreHistory holds each processed event at most once.
RecalculationSerialization ==
  \A l \in LeadIds :
    /\ \A v, w \in Workers : (MidRebuild(v, l) /\ Rebuilding(w, l)) => v = w
    /\ \A e \in EventIds : RowsOfEvent(e) <= 1

InactiveRuleEventLedgered ==
  \A e \in EventIds :
    ( /\ returned.eventId = e
      /\ returned.kind = "error"
      /\ returned.error = "No active scoring rule found"
      /\ Len(outcomes[e]) = 1
      /\ ~overlapped[e] )
    => /\ applied[e] = 0
       /\ events[e].exists

\* the job of an event whose lead does not exist: every attempt so far failed
\* with 'Lead not found' and was counted, there were at most `attempts` of
\* them, the job is not completed, and after the last one it is failed and
\* getJobStatus shows it
DeadLettered(e) ==
  /\ jobs[e].attemptsMade <= attempts
  /\ jobs[e].state # "completed"
  /\ Len(outcomes[e]) = jobs[e].attemptsMade
  /\ \A i \in 1..Len(outcomes[e]) : outcomes[e][i] = "Lead not found"
  /\ jobs[e].attemptsMade = attempts => jobs[e].state = "failed"
  /\ jobs[e].state = "failed"
       => getJobStatus(e) = [jobId |-> e, state |-> "failed",
                             attemptsMade |-> attempts,
                             failedReason |-> "Lead not found"]

\* C19: a queued event whose lead does not exist fails on every attempt, is
\* attempted at most 3 times and then ends in the failed state, which stays
\* visible through getJobStatus (state failed, attemptsMade, failedReason);
\* it is never retried after that, never dropped and never completed.
DeadLetter ==
  /\ [](\A e \in EventIds : ~leads[payload[e].leadId].exists => DeadLettered(e))
  /\ [][\A e \in EventIds : jobs[e].state = "failed" => jobs'[e] = jobs[e]]_vars
  /\ \A e \in EventIds :
       (jobs[e].state = "waiting" /\ ~leads[payload[e].leadId].exists)
       ~> (jobs[e].state = "failed")

\* the job of an event of a missing lead has used up its attempts
DeadLetter_Witness ==
  \E e \in EventIds :
    /\ ~leads[payload[e].leadId].exists
    /\ jobs[e].state = "failed"
    /\ jobs[e].attemptsMade = attempts
    /\ outcomes[e] = <<"Lead not found", "Lead not found", "Lead not found">>

\* C20: under fair scheduling of the workers every event enqueued for an
\* existing lead whose event type has an active rule is eventually marked
\* processed, with a ScoreHistory row of its own, and its job eventually
\* reaches the completed state.
ExactlyOnceLiveness ==
  \A e \in EventIds :
    ( /\ jobs[e].state = "waiting"
      /\ leads[payload[e].leadId].exists
      /\ rules[payload[e].eventType].active )
    ~> ( /\ jobs[e].state = "completed"
         /\ events[e].processed
         /\ RowsOfEvent(e) = 1 )

\* the jobs the queue holds for an eventId
JobsOf(e) == {j \in JobIds : jobs[j].state # "none" /\ jobs[j].eventId = e}

Pending == {"waiting", "delayed", "active"}

\* C22: the queue holds at most one job per eventId at every moment, and an
\* addEvent or addBatch that is answered (202) leaves every job that was
\* pending (waiting, delayed or active) as it was: for an eventId with a
\* pending job no second job is created, also when one batch carries the
\* eventId twice
DedupOnEnqueue ==
  /\ [](\A e \in EventIds : Cardinality(JobsOf(e)) <= 1)
  /\ [][response'.status = 202
        => \A j \in JobIds : jobs[j].state \in Pending => jobs'[j] = jobs[j]]_vars

\* an event is enqueued again while its job is being retried
DedupOnEnqueue_Witness ==
  \E e \in EventIds :
    /\ response.status = 202
    /\ response.jobId = e
    /\ jobs[e].state \in {"active", "delayed"}
    /\ jobs[e].attemptsMade >= 1
    /\ JobsOf(e) = {e}

\* the events of a lead whose points processEvent has applied to its score
AppliedOf(leadId) ==
  {e \in EventIds : events[e].exists /\ events[e].leadId = leadId /\ applied[e] >= 1}

Deliveries == {"processEvent", "processBatch", "job"}

InBatch(batch, e) == Cardinality({i \in 1..Len(batch) : batch[i] = e})

\* C25: when processBatch returns, processed + duplicates + failed is the
\* number of events of the batch, errors holds one {eventId, error} entry
\* per failed event, in the order of the attempts, and every event of the
\* batch was attempted, also the ones that come after a failed one.
BatchIsolation ==
  batchReturned.returned
  => LET r == batchReturned
         n == Len(r.sortedEvents)
     IN  /\ r.processed + r.duplicates + r.failed = n
         /\ Len(r.errors) = r.failed
         /\ \A i \in 1..Len(r.errors) : r.errors[i].error # "none"
         /\ \A e \in EventIds :
              /\ Cardinality({i \in 1..Len(r.errors) : r.errors[i].eventId = e})
                   <= InBatch(r.sortedEvents, e)
              /\ Len(outcomes[e]) >= InBatch(r.sortedEvents, e)
         /\ r.failed = n => \A i \in 1..n : r.errors[i].eventId = r.sortedEvents[i]

\* a batch of two different events has returned: the first one failed and
\* the second one was attempted all the same
BatchIsolation_Witness ==
  /\ batchReturned.returned
  /\ Len(batchReturned.sortedEvents) = 2
  /\ batchReturned.sortedEvents[1] # batchReturned.sortedEvents[2]
  /\ batchReturned.failed >= 1
  /\ batchReturned.errors[1].eventId = batchReturned.sortedEvents[1]
  /\ Len(outcomes[batchReturned.sortedEvents[2]]) = 1

\* C26: the batch route answers an empty events array and an array of more
\* than 1000 events with 400 and the error of the check that failed, it
\* accepts (202) every array of 1 to 1000 events, and a step that answers
\* 400 adds no job, starts no call and writes nothing to the store.
BatchLimits ==
  /\ []( (response.status # 0 /\ response.jobId = "none")
         => /\ response.length = 0
                 => /\ response.status = 400
                    /\ response.error = "events array cannot be empty"
            /\ response.length >= 1001
                 => /\ response.status = 400
                    /\ response.error = "Maximum 1000 events allowed per batch"
            /\ response.length \in 1..1000 => response.status = 202 )
  /\ [][response'.status = 400
        => /\ jobs' = jobs
           /\ pc' = pc
           /\ outcomes' = outcomes
           /\ UNCHANGED store]_vars

\* a batch of exactly 1000 events has been accepted and its jobs wait
BatchLimits_Witness ==
  /\ response.status = 202
  /\ response.length = 1000
  /\ \A e \in EventIds : JobsOf(e) # {} /\ jobs[e].state = "waiting"

\* C27: the step in which a processEvent call applies its event (the save of
\* line 106 on the in-order path, the end of the recalculation on the
\* out-of-order path) hands exactly one notification to emitScoreUpdate,
\* with leadId, previousScore, newScore, change, eventType, timestamp and
\* outOfOrder (FALSE in order, TRUE out of order); a call that ends as a
\* duplicate or fails without applying its event emits none.
NotificationInBothPaths ==
  [][ \A w \in Workers :
        (returned'.worker = w /\ loc[w].op \in Deliveries)
        => LET l == loc[w]
               applies == /\ pc[w] \in {"L106", "L236"}
                          /\ returned'.error # "store error"
               newScore == IF pc[w] = "L106" THEN Clamp(l.leadScore + l.rulePoints)
                           ELSE l.totalScore
               previousScore == IF pc[w] = "L106" THEN l.leadScore ELSE l.previousScore
           IN  IF applies
                 THEN emitted' = Append(emitted,
                        [leadId |-> l.leadId, previousScore |-> previousScore,
                         newScore |-> newScore, change |-> newScore - previousScore,
                         eventType |-> l.eventType, timestamp |-> l.eventTimestamp,
                         outOfOrder |-> pc[w] = "L236"])
                 ELSE emitted' = emitted ]_vars

\* C30: at every moment at most 5 jobs of the queue are active, however many
\* jobs wait.
BoundedConcurrency == Cardinality(Active) <= 5

\* five jobs are active and a sixth one waits
BoundedConcurrency_Witness ==
  /\ Cardinality(Active) = 5
  /\ \E j \in DOMAIN jobs : jobs[j].state = "waiting"

\* the order of the event types, most urgent first
Severity == <<"purchase", "demo_request", "form_submission", "email_open", "page_view">>

\* C31: getPriority gives the event types of Severity the priorities 1..5 in
\* that order and every other event type the priority 5, and a step in which
\* the processor takes a waiting job takes none whose event type comes later
\* in Severity than that of another job waiting in the same state.
PriorityOrder ==
  /\ [](/\ \A i \in 1..5 : getPriority(Severity[i]) = i
        /\ \A t \in {"unknown", "signup", "none"} : getPriority(t) = 5)
  /\ [][ \A j, f \in JobIds :
           ( /\ jobs[j].state = "waiting" /\ jobs'[j].state = "active"
             /\ jobs[f].state = "waiting" )
           => \A a, b \in 1..5 :
                ( /\ Severity[a] = payload[jobs[j].eventId].eventType
                  /\ Severity[b] = payload[jobs[f].eventId].eventType )
                => a <= b ]_vars

\* an email_open job that has waited since its first attempt failed still
\* waits while the purchase job enqueued after it has been taken
PriorityOrder_Witness ==
  \E j, f \in JobIds :
    /\ jobs[j].state = "active" /\ jobs[j].attemptsMade = 0
    /\ payload[jobs[j].eventId].eventType = "purchase"
    /\ jobs[f].state = "waiting" /\ jobs[f].attemptsMade >= 1
    /\ payload[jobs[f].eventId].eventType = "email_open"

\* worker w takes the step: its call moves on or ends
Acting(w) ==
  /\ pc[w] # "idle"
  /\ <<pc'[w], [loc'[w] EXCEPT !.alone = loc[w].alone]>> # <<pc[w], loc[w]>>

\* C34: a step of processEvent for an event of lead L, or of
\* recalculateLeadScore(L), leaves the currentScore, the ScoreHistory rows
\* and the Event records of every other lead as they were, whatever the
\* other workers are doing.
CrossLeadIsolation ==
  [][ \A w \in Workers :
        Acting(w)
        => \A l \in LeadIds \ {loc[w].leadId} :
             /\ leads'[l] = leads[l]
             /\ SelectSeq(history', LAMBDA row : row.leadId = l)
                  = SelectSeq(history, LAMBDA row : row.leadId = l)
             /\ \A e \in EventIds :
                  (events[e].leadId = l \/ events'[e].leadId = l)
                  => events'[e] = events[e] ]_vars

\* an event of L1 has just been applied while a call for an event of the
\* other lead is in progress, and both leads have their own score
CrossLeadIsolation_Witness ==
  /\ returned.leadId = "L1"
  /\ returned.error = "change is not defined"
  /\ leads["L1"].currentScore = rules["purchase"].points
  /\ leads["L2"].exists
  /\ leads["L2"].currentScore = 0
  /\ \E w \in Workers : pc[w] = "L106" /\ loc[w].leadId = "L2"

\* C36: the step in which processEvent looks up a lead that does not exist
\* ends the call with the not-found error and changes nothing in the store
\* and no notification; and an event all of whose deliveries ended that way
\* has no Event record, no ScoreHistory row and no points applied.
UnknownLeadNoTrace ==
  /\ [][ \A w \in Workers :
           ( /\ Acting(w)
             /\ pc[w] = "L24"
             /\ ~leads[loc[w].leadId].exists
             /\ returned'.error # "store error" )
           => /\ returned'.worker = w
              /\ returned'.kind = "error"
              /\ returned'.error = "Lead not found"
              /\ UNCHANGED <<store, emitted, applied>> ]_vars
  /\ [](\A e \in EventIds :
          ( /\ outcomes[e] # <<>>
            /\ \A i \in 1..Len(outcomes[e]) : outcomes[e][i] = "Lead not found"
            /\ \A w \in Workers : ~(InFlight(w) /\ loc[w].eventId = e) )
          => /\ ~events[e].exists
             /\ RowsOfEvent(e) = 0
             /\ applied[e] = 0)

\* an event of the lead that does not exist has been delivered twice
UnknownLeadNoTrace_Witness ==
  \E e \in EventIds :
    /\ returned.eventId = e
    /\ returned.error = "Lead not found"
    /\ ~leads[payload[e].leadId].exists
    /\ Len(outcomes[e]) = 2
    /\ ~events[e].exists
    /\ emitted = <<>>

\* C37: once the job of an eventId has ended in the failed state, which the
\* queue keeps, adding the same eventId again is answered 202 but creates no
\* job and starts no attempt: the job, the attempts made for the event and
\* what the event applied stay as they are, also when the lead it missed
\* exists by now, and no event is ever attempted more than `attempts` times.
FailedJobKept ==
  /\ [](\A e \in EventIds : Len(outcomes[e]) <= attempts)
  /\ [][\A e \in EventIds :
         jobs[e].state = "failed"
         => /\ jobs'[e] = jobs[e]
            /\ outcomes'[e] = outcomes[e]
            /\ applied'[e] = applied[e]
            /\ events'[e] = events[e]
            /\ \A w \in Workers : pc'[w] # "idle" => loc'[w].eventId # e
            /\ (response'.status = 202 /\ response'.jobId = e) => jobs' = jobs]_vars

\* addEvent has just answered 202 for an event whose job failed for good with
\* 'Lead not found', and the lead exists by now
FailedJobKept_Witness ==
  \E e \in EventIds :
    /\ response.status = 202
    /\ response.jobId = e
    /\ jobs[e].state = "failed"
    /\ jobs[e].failedReason = "Lead not found"
    /\ Len(outcomes[e]) = attempts
    /\ leads[payload[e].leadId].exists

\* a sequence of events in ascending timestamp order
Ascending(batch) ==
  \A i, j \in 1..Len(batch) :
    i < j => payload[batch[i]].timestamp <= payload[batch[j]].timestamp

\* the timestamps of rows never go down
RowsAscending(rows) ==
  \A i, j \in 1..Len(rows) : i < j => rows[i].timestamp <= rows[j].timestamp

\* C38: processBatch takes the events of its input array, each as often as
\* the array holds it, in ascending timestamp order whatever the order of
\* the array, and attempts them in that order; no event of a batch takes the
\* out-of-order path, and when the batch has returned the ScoreHistory of
\* every lead is in timestamp order.  The timestamps of the events never
\* change, so the sort of every input array is looked at before the first
\* request.
BatchInTimestampOrder ==
  /\ nRequests = 0
       => \A batch \in BatchInputs :
            /\ Ascending(SortByTimestamp(batch))
            /\ \A e \in EventIds : InBatch(SortByTimestamp(batch), e) = InBatch(batch, e)
  /\ \A w \in Workers :
       loc[w].op = "processBatch"
       => /\ Ascending(loc[w].sortedEvents)
          /\ pc[w] # "L66"
          /\ \E k \in 1..Len(loc[w].sortedEvents) :
               /\ loc[w].sortedEvents[k] = loc[w].eventId
               /\ loc[w].batchRest
                    = SubSeq(loc[w].sortedEvents, k + 1, Len(loc[w].sortedEvents))
               /\ Len(loc[w].errors) + loc[w].processed + loc[w].duplicates = k - 1
  /\ batchReturned.returned
       => /\ Ascending(batchReturned.sortedEvents)
          /\ \A i \in 1..Len(batchReturned.sortedEvents) :
               \A n \in 1..Len(outcomes[batchReturned.sortedEvents[i]]) :
                 outcomes[batchReturned.sortedEvents[i]][n] # "outOfOrder"
          /\ \A l \in LeadIds : RowsAscending(HistoryOf(l))

\* a batch of two events of one existing lead with no ScoreHistory has
\* returned: the event with the earlier timestamp, which is not the one
\* with the smaller eventId, was attempted first, and both were attempted
BatchInTimestampOrder_Witness ==
  /\ batchReturned.returned
  /\ batchReturned.sortedEvents = <<"e2", "e1">>
  /\ payload["e2"].timestamp < payload["e1"].timestamp
  /\ payload["e1"].leadId = payload["e2"].leadId
  /\ leads[payload["e1"].leadId].exists
  /\ HistoryOf(payload["e1"].leadId) = <<>>
  /\ batchReturned.failed = 2
  /\ batchReturned.errors[1].eventId = "e2"
  /\ batchReturned.errors[2].eventId = "e1"

\* the processed events of a lead whose rule is active
CountedOf(leadId) == {e \in ProcessedOf(leadId) : rules[events[e].eventType].active}

\* C39: recalculateLeadScore returns previousScore = the currentScore the
\* lead had when the call read it, newScore = the currentScore stored when
\* the call returns and eventsProcessed = the number of the lead's processed
\* events; the ScoreHistory it leaves holds a row for each processed event
\* with an active rule and none for the others, newScore is the score of the
\* last row, and a lead with no processed event ends with score 0 and an
\* empty ScoreHistory.
RecalculationAccounting ==
  [][\A w \in Workers :
       /\ (pc[w] = "L186" /\ pc'[w] = "L194")
            => loc'[w].previousScore = leads[loc[w].leadId].currentScore
       /\ ( /\ pc[w] = "L236"
            /\ returned'.kind = "recalc"
            /\ returned'.worker = w )
          => LET l == loc[w].leadId IN
             /\ returned'.leadId = l
             /\ returned'.previousScore = loc[w].previousScore
             /\ returned'.newScore = leads'[l].currentScore
             /\ returned'.eventsProcessed = Cardinality(ProcessedOf(l))
             /\ Len(HistoryOf(l)) = Cardinality(CountedOf(l))
             /\ \A i \in 1..Len(HistoryOf(l)) : HistoryOf(l)[i].eventId \in CountedOf(l)
             /\ returned'.newScore = FinalScore(HistoryOf(l))
             /\ ProcessedOf(l) = {}
                  => leads'[l].currentScore = 0 /\ HistoryOf(l) = <<>>]_vars

====
